---- MODULE Spec2Model ----
(***************************************************************************)
(* A model of test1.py: the libsql client/server benchmark.                *)
(*                                                                         *)
(* The program is main(): a loop of async_test calls against the network   *)
(* target, the same loop against the local file, then execute_bench on     *)
(* the network target and execute_bench on the local file.  The two        *)
(* targets are separate databases, so a behaviour of the model is main as  *)
(* one target sees it: the check loop on that target, then execute_bench   *)
(* on it.  (An exception in a call on the other target ends main early,    *)
(* which only cuts such a behaviour short.)                                *)
(*                                                                         *)
(* The backends are the environment: a target is a primary database that   *)
(* executes the writes; the network target serves reads from a replica     *)
(* that applies the primary's changes in order, after an unbounded lag;    *)
(* the local file serves reads from the primary itself.  A backend may     *)
(* reject a statement (LibsqlError) or the call may end in another         *)
(* exception.                                                              *)
(*                                                                         *)
(* Python's None is the empty sequence and a present value x is <<x>>.     *)
(* The clock is time.time() measured from the entry of the running call    *)
(* of async_test or execute_bench: the program only subtracts readings     *)
(* taken within one such call.                                             *)
(*                                                                         *)
(* Spec is main; LiveSpec is Spec under weak fairness of the program's     *)
(* steps and of the replication; BenchSpec is the class Bench used on its  *)
(* own, in the variables timer and now.                                    *)
(***************************************************************************)
EXTENDS Integers, Sequences, FiniteSets, TLC

\* ------------------------------------------------------------------ bounds
\* record_count ranges over 0..MaxRecords (the program's default is 5000)
MaxRecords == 2
\* the clock readings of one call range over 0..MaxClock
MaxClock == 3
\* each check loop of main runs NumChecks times (the program runs 10)
NumChecks == 1
\* a Bench used on its own returns at most MaxReads values of duration
MaxReads == 3

\* ------------------------------------------------------- program constants
SchemaInterval == 1
ReadInterval == 2
ExpectedSchemaCount == 2

None == <<>>
Some(x) == <<x>>
Val(o) == o[1]

Targets == {"server", "file"}

\* the clock may advance by at most one tick between two adjacent readings
Delays == {0, 1}

\* the non-decreasing sequences of k clock readings that start at or after
\* t and span at most one tick
Reads(t, k) ==
  {[i \in 1..k |-> IF i < j THEN t ELSE t + 1] :
     j \in (IF t < MaxClock THEN 1..(k + 1) ELSE {k + 1})}

\* the clock after a suspension that began at t
Adv(t) == {t + d : d \in {e \in Delays : t + e <= MaxClock}}

\* ------------------------------------------------------------ ResultObject
ResultDefaults ==
  [columns |-> None, records |-> None, last_insert_rowid |-> None,
   rows_affected |-> None, count |-> None, error |-> None, success |-> None]

\* one record of _init_result_set: column name -> field, a later column of
\* the same name overwriting an earlier one
RowRecord(columns, row) ==
  [c \in {columns[x] : x \in 1..Len(row)} |->
     row[CHOOSE x \in 1..Len(row) :
           /\ columns[x] = c
           /\ \A y \in 1..Len(row) : columns[y] = c => y <= x]]

\* _init_result_set with count taken from the columns instead of the records
InitResultSetCountsColumns(obj, result_set) ==
  LET records == [i \in 1..Len(result_set.rows) |->
                    RowRecord(result_set.columns, result_set.rows[i])]
  IN [columns |-> Some(result_set.columns),
      records |-> Some(records),
      last_insert_rowid |-> result_set.last_insert_rowid,
      rows_affected |-> Some(result_set.rows_affected),
      count |-> Some(Len(result_set.columns)),
      success |-> Some(TRUE)] @@ obj

InitResultSet(obj, result_set) ==
  LET records == [i \in 1..Len(result_set.rows) |->
                    RowRecord(result_set.columns, result_set.rows[i])]
  IN [columns |-> Some(result_set.columns),
      records |-> Some(records),
      last_insert_rowid |-> result_set.last_insert_rowid,
      rows_affected |-> Some(result_set.rows_affected),
      count |-> Some(Len(records)),
      success |-> Some(TRUE)] @@ obj

\* ResultObject(result_set=..., **kwargs)
ResultObject(result_set, kwargs) ==
  LET obj == kwargs @@ ResultDefaults
  IN IF result_set = None THEN obj ELSE InitResultSet(obj, Val(result_set))

\* ----------------------------------------------------------------- backend
Objects == {"insert_test", "pony", "sqlite_sequence"}
ObjectOrder == <<"insert_test", "pony", "sqlite_sequence">>

EmptyDB == [schema |-> {}, pony |-> 0, insert_test |-> 0]

FreshTarget == [primary |-> EmptyDB, replica |-> EmptyDB, pending |-> <<>>]

\* the statements the program issues
Stmt(op, table, autoinc) == [op |-> op, table |-> table, autoinc |-> autoinc]
DropPony == Stmt("drop", "pony", FALSE)
CreatePony == Stmt("create", "pony", TRUE)
CreatePonyAgain == Stmt("create", "pony", FALSE)
SelectSchema == Stmt("schema", "sqlite_schema", FALSE)
InsertPony == Stmt("insert", "pony", FALSE)
CountPony == Stmt("count", "pony", FALSE)
CreateInsertTest == Stmt("create", "insert_test", TRUE)
InsertInsertTest == Stmt("insert", "insert_test", FALSE)
SelectInsertTest == Stmt("select", "insert_test", FALSE)
DropInsertTest == Stmt("drop", "insert_test", FALSE)

IsWrite(s) == s.op \in {"create", "drop", "insert"}

\* the database a statement is evaluated on: writes on the primary, reads
\* on the replica of the network target and on the primary of the file
View(url, t) == IF url = "file" THEN t.primary ELSE t.replica

Accepts(s, st) ==
  CASE s.op = "create" -> s.table \notin st.schema
    [] s.op \in {"drop", "insert", "select", "count"} -> s.table \in st.schema
    [] OTHER -> TRUE

RowsOf(st, table) == IF table = "pony" THEN st.pony ELSE st.insert_test

\* the database after an accepted write; sqlite_sequence is created with the
\* first AUTOINCREMENT table and outlives the drop of that table
Apply(s, st) ==
  CASE s.op = "create" ->
         [st EXCEPT !.schema = @ \cup {s.table}
                                 \cup (IF s.autoinc THEN {"sqlite_sequence"} ELSE {}),
                    ![s.table] = 0]
    [] s.op = "drop" -> [st EXCEPT !.schema = @ \ {s.table}, ![s.table] = 0]
    [] s.op = "insert" -> [st EXCEPT ![s.table] = @ + 1]
    [] OTHER -> st

\* the result set of an accepted statement evaluated on st
ResultSet(s, st) ==
  CASE s.op = "schema" ->
         [columns |-> <<"type", "name">>,
          rows |-> LET present == SelectSeq(ObjectOrder, LAMBDA o : o \in st.schema)
                   IN [i \in 1..Len(present) |-> <<"table", present[i]>>],
          last_insert_rowid |-> None, rows_affected |-> 0]
    [] s.op = "count" ->
         [columns |-> <<"c">>, rows |-> << <<st.pony>> >>,
          last_insert_rowid |-> None, rows_affected |-> 0]
    [] s.op = "select" ->
         [columns |-> <<"id", "description">>,
          rows |-> [i \in 1..RowsOf(st, s.table) |-> <<i, "test">>],
          last_insert_rowid |-> None, rows_affected |-> 0]
    [] s.op = "insert" ->
         [columns |-> <<>>, rows |-> <<>>,
          last_insert_rowid |-> Some(RowsOf(st, s.table) + 1), rows_affected |-> 1]
    [] OTHER ->
         [columns |-> <<>>, rows |-> <<>>,
          last_insert_rowid |-> None, rows_affected |-> 0]

\* what the backend may do with a statement: execute it ("none"), reject it
\* with a LibsqlError ("reject"), or end the call in another exception
Faults == {"none", "reject", "raise"}

\* the answer of libsql_client's execute and the target after it
Respond(url, t, s, fault) ==
  LET st == IF IsWrite(s) THEN t.primary ELSE View(url, t)
      after == Apply(s, t.primary)
  IN IF fault = "raise"
       THEN [kind |-> "other_error", result_set |-> None,
             explanation |-> "", code |-> "", target |-> t]
     ELSE IF fault = "reject"
       THEN [kind |-> "libsql_error", result_set |-> None,
             explanation |-> "backend error", code |-> "SQLITE_BUSY", target |-> t]
     ELSE IF ~Accepts(s, st)
       THEN [kind |-> "libsql_error", result_set |-> None,
             explanation |-> (IF s.op = "create" THEN "table already exists"
                                                 ELSE "no such table"),
             code |-> "SQLITE_ERROR", target |-> t]
     ELSE [kind |-> "result", result_set |-> Some(ResultSet(s, st)),
           explanation |-> "", code |-> "",
           target |-> IF ~IsWrite(s) THEN t
                      ELSE IF url = "file"
                        THEN [t EXCEPT !.primary = after]
                        ELSE [t EXCEPT !.primary = after,
                                       !.pending = Append(@, after)]]

\* --------------------------------------------------------------- SQLClient
\* SQLClient.execute with an except clause that catches every exception
executeCatchAll(resp, t0, t1) ==
  IF resp.kind \in {"libsql_error", "other_error"}
    THEN [raised |-> FALSE, dispatches |-> 1,
          value |-> Some(ResultObject(None,
                      [success |-> Some(FALSE),
                       error |-> Some([message |-> resp.explanation,
                                       code |-> resp.code])]))]
  ELSE [raised |-> FALSE, dispatches |-> 1,
        value |-> Some([request_duration |-> t1 - t0,
                        serialization_duration |-> 0,
                        total_duration |-> t1 - t0]
                       @@ ResultObject(resp.result_set, <<>>))]

\* SQLClient.execute on the answer resp of one dispatch; t0 is the clock at
\* dispatch and t1 the clock when the answer arrives.  dispatches counts
\* the calls of self.client.execute.
execute(resp, t0, t1) ==
  IF resp.kind = "libsql_error"
    THEN [raised |-> FALSE, dispatches |-> 1,
          value |-> Some(ResultObject(None,
                      [success |-> Some(FALSE),
                       error |-> Some([message |-> resp.explanation,
                                       code |-> resp.code])]))]
  ELSE IF resp.kind = "other_error"
    THEN [raised |-> TRUE, dispatches |-> 1, value |-> None]
  ELSE [raised |-> FALSE, dispatches |-> 1,
        value |-> Some([request_duration |-> t1 - t0,
                        serialization_duration |-> 0,
                        total_duration |-> t1 - t0]
                       @@ ResultObject(resp.result_set, <<>>))]

\* ------------------------------------------------------------------- Bench
BenchInit == [time_start |-> None, time_end |-> None, _duration |-> None]

BenchEnter(b, t) == [b EXCEPT !.time_start = Some(t)]

\* the duration property with the subtraction of line 102 the wrong way round
BenchDurationReversed(b, t1, t2) ==
  IF b._duration = None \/ b._duration = Some(0)
    THEN IF b.time_start = None
           THEN [raised |-> TRUE, bench |-> [b EXCEPT !.time_end = Some(t1)], value |-> 0]
           ELSE [raised |-> FALSE,
                 bench |-> [b EXCEPT !.time_end = Some(t1),
                                     !._duration = Some(Val(b.time_start) - t2)],
                 value |-> Val(b.time_start) - t2]
    ELSE [raised |-> FALSE, bench |-> b, value |-> Val(b._duration)]

\* the duration property read with the clock at t1 (line 101) and t2 (line
\* 102): a missing or zero cached value is computed again
BenchDuration(b, t1, t2) ==
  IF b._duration = None \/ b._duration = Some(0)
    THEN IF b.time_start = None
           THEN [raised |-> TRUE, bench |-> [b EXCEPT !.time_end = Some(t1)], value |-> 0]
           ELSE [raised |-> FALSE,
                 bench |-> [b EXCEPT !.time_end = Some(t1),
                                     !._duration = Some(t2 - Val(b.time_start))],
                 value |-> t2 - Val(b.time_start)]
    ELSE [raised |-> FALSE, bench |-> b, value |-> Val(b._duration)]

\* __exit__: the duration is read twice, with the clock readings r[1..4]
BenchExit(b, r) ==
  LET first == BenchDuration(b, r[1], r[2])
  IN BenchDuration(first.bench, r[3], r[4])

\* ------------------------------------------------------------------- state
VARIABLES
  mainpc,            \* main: which loop or call is running
  x,                 \* main: the loop variable of the check loop
  checks,            \* main: the results the check loop has printed
  pc,                \* the position in the running async_test or execute_bench
  url,               \* the target: url_server or url_file
  db,                \* the backend of the target
  client,            \* SQLClient.client: "none", "open" or "closed"
  now,               \* time.time()
  lastCall,          \* the last call of SQLClient.execute that ended
  result,            \* async_test: result
  refused,           \* async_test: a statement of the running call was rejected
  record_count,      \* execute_bench: record_count
  bench_start,       \* execute_bench: bench_start
  bench,             \* execute_bench: the Bench of the with block being run
  tasks,             \* execute_bench: tasks
  duration_insert,   \* execute_bench: duration_insert
  time_waited,       \* execute_bench: time_waited
  records_inserted,  \* execute_bench: records_inserted
  report,            \* execute_bench: the returned report
  phaseLog,          \* the phases the running execute_bench has entered
  issued,            \* the phases in which it has dispatched a statement
  attempts,          \* the queries the running polling loop has issued
  sleeps,            \* the sleeps the running polling loop has ended
  timer              \* a Bench used on its own, and what it has returned

mainVars == <<mainpc, x, checks>>
locals == <<record_count, bench_start, bench, tasks, duration_insert,
            time_waited, records_inserted, report>>
history == <<phaseLog, issued, attempts, sleeps>>
vars == <<mainVars, pc, url, db, client, now, lastCall, result, refused, locals, history,
          timer>>

\* Bench(title): the object of lines 82-86, with no value of duration read,
\* no error raised and no with block entered
TimerInit == [bench |-> BenchInit, readings |-> <<>>, raised |-> FALSE, inside |-> FALSE]

NoCall == [stmt |-> SelectSchema, kind |-> "none",
           out |-> [raised |-> FALSE, dispatches |-> 0, value |-> None]]

Init ==
  /\ mainpc = "checks"
  /\ x = 1
  /\ checks = <<>>
  /\ pc = "idle"
  /\ url \in Targets
  /\ db = FreshTarget
  /\ client = "none"
  /\ now = 0
  /\ lastCall = NoCall
  /\ result = None
  /\ refused = FALSE
  /\ record_count = 0
  /\ bench_start = 0
  /\ bench = BenchInit
  /\ tasks = <<>>
  /\ duration_insert = None
  /\ time_waited = 0
  /\ records_inserted = None
  /\ report = None
  /\ phaseLog = <<>>
  /\ issued = {}
  /\ attempts = 0
  /\ sleeps = 0
  /\ timer = TimerInit

\* one call of client.execute(s), dispatched when the clock reads t0: the
\* backend's answer under fault, arriving when the clock reads t1
Call(s, fault, t0, t1) ==
  LET resp == Respond(url, db, s, fault)
  IN [stmt |-> s, kind |-> resp.kind, out |-> execute(resp, t0, t1),
      target |-> resp.target]

Ended(c) == [stmt |-> c.stmt, kind |-> c.kind, out |-> c.out]

\* the network target's replica applies the next change of the primary
Replicate ==
  /\ client = "open"
  /\ url = "server"
  /\ db.pending # <<>>
  /\ db' = [db EXCEPT !.replica = Head(db.pending), !.pending = Tail(@)]
  /\ UNCHANGED <<mainVars, pc, url, timer, client, now, lastCall, result, refused,
                 locals, history>>

\* --------------------------------------------------------------- async_test
\* lines 216-219 and 195: main calls async_test, which opens its client
AsyncTestEnter ==
  /\ mainpc = "checks"
  /\ pc \in {"idle", "t_returned"}
  /\ pc' = "t_create"
  /\ client' = "open"
  /\ now' = 0
  /\ result' = None
  /\ refused' = FALSE
  /\ UNCHANGED <<mainVars, url, timer, db, lastCall, locals, history>>

\* an exception leaves the async with block, which closes the client, and
\* ends main
TestRaise ==
  /\ pc' = "t_raised"
  /\ client' = "closed"
  /\ mainpc' = "aborted"
  /\ UNCHANGED <<x, checks, result>>

\* lines 196-201: a statement whose result is not looked at
TestStatement(at, s, next) ==
  /\ pc = at
  /\ \E fault \in Faults, t1 \in Adv(now) :
       LET c == Call(s, fault, now, t1)
       IN /\ db' = c.target
          /\ lastCall' = Ended(c)
          /\ now' = t1
          /\ refused' = (refused \/ c.kind # "result")
          /\ IF c.out.raised
               THEN TestRaise
               ELSE /\ pc' = next
                    /\ UNCHANGED <<mainVars, client, result>>
  /\ UNCHANGED <<url, timer, locals, history>>

AsyncTestCreate == TestStatement("t_create", CreateInsertTest, "t_insert")

AsyncTestInsert == TestStatement("t_insert", InsertInsertTest, "t_select")

\* line 202
AsyncTestSelect ==
  /\ pc = "t_select"
  /\ \E fault \in Faults, t1 \in Adv(now) :
       LET c == Call(SelectInsertTest, fault, now, t1)
       IN /\ db' = c.target
          /\ lastCall' = Ended(c)
          /\ now' = t1
          /\ refused' = (refused \/ c.kind # "result")
          /\ IF c.out.raised
               THEN TestRaise
               ELSE /\ result' = Some(Val(c.out.value).count = Some(1))
                    /\ pc' = "t_drop"
                    /\ UNCHANGED <<mainVars, client>>
  /\ UNCHANGED <<url, timer, locals, history>>

\* lines 203-204 and the loop of main that called: the drop, the return
\* through the async with block, the print of the result and, after the
\* last round of the loop, the input() that leads to the benchmark
AsyncTestDrop ==
  /\ pc = "t_drop"
  /\ \E fault \in Faults, t1 \in Adv(now) :
       LET c == Call(DropInsertTest, fault, now, t1)
       IN /\ db' = c.target
          /\ lastCall' = Ended(c)
          /\ now' = t1
          /\ IF c.out.raised
               THEN TestRaise
               ELSE /\ pc' = "t_returned"
                    /\ client' = "closed"
                    /\ checks' = Append(checks, Val(result))
                    /\ x' = IF x < NumChecks THEN x + 1 ELSE 1
                    /\ mainpc' = IF x < NumChecks THEN "checks" ELSE "bench"
                    /\ UNCHANGED result
  /\ UNCHANGED <<url, timer, refused, locals, history>>

\* ------------------------------------------------------------ execute_bench
\* lines 114-117: the call by main with a record_count, the reading of
\* bench_start and the entry of the async with block
BenchStart ==
  /\ mainpc = "bench"
  /\ pc = "t_returned"
  /\ \E n \in 0..MaxRecords : record_count' = n
  /\ client' = "open"
  /\ now' = 0
  /\ bench_start' = 0
  /\ pc' = "DroppingPriorTable"
  /\ phaseLog' = <<"DroppingPriorTable">>
  /\ checks' = <<>>
  /\ lastCall' = NoCall
  /\ result' = None
  /\ refused' = FALSE
  /\ bench' = BenchInit
  /\ tasks' = <<>>
  /\ duration_insert' = None
  /\ time_waited' = 0
  /\ records_inserted' = None
  /\ report' = None
  /\ issued' = {}
  /\ attempts' = 0
  /\ sleeps' = 0
  /\ UNCHANGED <<mainpc, x, url, timer, db>>

\* the exception is swallowed and the statement that raised is run again
BenchRaiseSwallowed ==
  /\ UNCHANGED <<pc, phaseLog, client, mainpc>>
  /\ UNCHANGED <<x, checks, report>>

\* an exception leaves the async with block (line 117), which closes the
\* client, leaves execute_bench without a report and ends main
BenchRaise ==
  /\ pc' = "Failed"
  /\ phaseLog' = Append(phaseLog, "Failed")
  /\ client' = "closed"
  /\ mainpc' = "aborted"
  /\ UNCHANGED <<x, checks, report>>

\* lines 119-125
DropPrior ==
  /\ pc = "DroppingPriorTable"
  /\ \E fault \in Faults, t1 \in Adv(now) :
       LET c == Call(DropPony, fault, now, t1)
       IN /\ db' = c.target
          /\ lastCall' = Ended(c)
          /\ now' = t1
          /\ IF c.out.raised
               THEN BenchRaise
               ELSE /\ pc' = "Creating"
                    /\ phaseLog' = Append(phaseLog, "Creating")
                    /\ UNCHANGED <<mainVars, client, report>>
  /\ issued' = issued \cup {"DroppingPriorTable"}
  /\ UNCHANGED <<url, timer, result, refused, record_count, bench_start, bench, tasks,
                 duration_insert, time_waited, records_inserted, attempts, sleeps>>

\* lines 127-131: the result of the create is not looked at
Create ==
  /\ pc = "Creating"
  /\ \E fault \in Faults, t1 \in Adv(now) : \E r \in Reads(t1, 4) :
       LET c == Call(CreatePony, fault, now, t1)
           left == BenchExit(BenchEnter(BenchInit, now), r)
       IN /\ db' = c.target
          /\ lastCall' = Ended(c)
          /\ now' = r[4]
          /\ IF c.out.raised \/ left.raised
               THEN BenchRaise
               ELSE /\ pc' = "VerifyingRejectedRecreate"
                    /\ phaseLog' = Append(phaseLog, "VerifyingRejectedRecreate")
                    /\ UNCHANGED <<mainVars, client, report>>
  /\ issued' = issued \cup {"Creating"}
  /\ UNCHANGED <<url, timer, result, refused, record_count, bench_start, bench, tasks,
                 duration_insert, time_waited, records_inserted, attempts, sleeps>>

\* the assert of lines 135-137 left out
AssertNothing(obj) == TRUE

\* the assert of lines 135-137 on the result obj of the second create
AssertFailed(obj) == obj.success = Some(FALSE)

\* lines 133-137, and the entry of the with block of line 142
Recreate ==
  /\ pc = "VerifyingRejectedRecreate"
  /\ \E fault \in Faults, t1 \in Adv(now) : \E r \in Reads(t1, 4) :
       LET c == Call(CreatePonyAgain, fault, now, t1)
           left == BenchExit(BenchEnter(BenchInit, now), r)
       IN /\ db' = c.target
          /\ lastCall' = Ended(c)
          /\ now' = r[4]
          /\ IF c.out.raised \/ left.raised \/ ~AssertFailed(Val(c.out.value))
               THEN BenchRaise /\ UNCHANGED bench
               ELSE /\ pc' = "WaitingSchemaSync"
                    /\ phaseLog' = Append(phaseLog, "WaitingSchemaSync")
                    /\ bench' = BenchEnter(BenchInit, r[4])
                    /\ UNCHANGED <<mainVars, client, report>>
  /\ issued' = issued \cup {"VerifyingRejectedRecreate"}
  /\ attempts' = 0
  /\ sleeps' = 0
  /\ UNCHANGED <<url, timer, result, refused, record_count, bench_start, tasks,
                 duration_insert, time_waited, records_inserted>>

\* the loop condition of line 143 ending the loop on 2 objects or more
SchemaSyncedAtLeast(obj) ==
  obj.count # None /\ Val(obj.count) >= ExpectedSchemaCount

\* the loop condition of line 143 on the result obj of the schema query:
\* TRUE when the loop ends
SchemaSynced(obj) == obj.count = Some(ExpectedSchemaCount)

\* line 143: one query of the schema loop; when the loop ends, the exit of
\* the with block of line 142
SchemaPoll ==
  /\ pc = "WaitingSchemaSync"
  /\ \E fault \in Faults, t1 \in Adv(now) : \E r \in Reads(t1, 4) :
       LET c == Call(SelectSchema, fault, now, t1)
           left == BenchExit(bench, r)
       IN /\ db' = c.target
          /\ lastCall' = Ended(c)
          /\ IF c.out.raised
               THEN /\ BenchRaise
                    /\ now' = r[4]
                    /\ bench' = left.bench
               ELSE IF SchemaSynced(Val(c.out.value))
               THEN /\ pc' = "Prepare"
                    /\ phaseLog' = Append(phaseLog, "LoadingRecords")
                    /\ now' = r[4]
                    /\ bench' = BenchInit
                    /\ UNCHANGED <<mainVars, client, report>>
               ELSE /\ pc' = "SchemaSleep"
                    /\ now' = t1
                    /\ UNCHANGED <<mainVars, client, report, phaseLog, bench>>
  /\ issued' = issued \cup {"WaitingSchemaSync"}
  /\ attempts' = attempts + 1
  /\ UNCHANGED <<url, timer, result, refused, record_count, bench_start, tasks,
                 duration_insert, time_waited, records_inserted, sleeps>>

\* lines 144-145
SchemaSleep ==
  /\ pc = "SchemaSleep"
  /\ now + SchemaInterval <= MaxClock
  /\ \E t1 \in Adv(now + SchemaInterval) : now' = t1
  /\ sleeps' = sleeps + 1
  /\ pc' = "WaitingSchemaSync"
  /\ UNCHANGED <<mainVars, url, timer, db, client, lastCall, result, refused, locals,
                 phaseLog, issued, attempts>>

\* a coroutine object of client.execute(insert ...) for index i: created,
\* not started
Coroutine(i) ==
  [index |-> i, state |-> "created", t0 |-> 0, dispatches |-> 0, kind |-> "none"]

\* asyncio.gather schedules a coroutine as a task; its first step reads the
\* clock and dispatches the insert
Launch(co, t) ==
  [co EXCEPT !.state = "inflight", !.t0 = t, !.dispatches = @ + 1]

\* lines 147-158: record_count coroutine objects, indexes 0..record_count-1
Prepare ==
  /\ pc = "Prepare"
  /\ \E r \in Reads(now, 4) :
       LET left == BenchExit(BenchEnter(BenchInit, now), r)
       IN now' = r[4]
  /\ tasks' = [i \in 1..record_count |-> Coroutine(i - 1)]
  /\ pc' = "Gather"
  /\ UNCHANGED <<mainVars, url, timer, db, client, lastCall, result, refused, record_count,
                 bench_start, bench, duration_insert, time_waited,
                 records_inserted, report, history>>

\* lines 161-163: the entry of the with block, and gather starting every task
Gather ==
  /\ pc = "Gather"
  /\ duration_insert' = None
  /\ bench' = BenchEnter(BenchInit, now)
  /\ tasks' = [i \in 1..Len(tasks) |-> Launch(tasks[i], now)]
  /\ issued' = IF Len(tasks) > 0 THEN issued \cup {"LoadingRecords"} ELSE issued
  /\ pc' = "AwaitGather"
  /\ UNCHANGED <<mainVars, url, timer, db, client, now, lastCall, result, refused, record_count,
                 bench_start, time_waited, records_inserted, report,
                 phaseLog, attempts, sleeps>>

\* the insert of task i ends, with a result or raising; kind keeps how
InsertComplete(i) ==
  /\ client = "open"
  /\ tasks[i].state = "inflight"
  /\ \E fault \in Faults, t1 \in Adv(now) :
       LET c == Call(InsertPony, fault, tasks[i].t0, t1)
       IN /\ db' = c.target
          /\ lastCall' = Ended(c)
          /\ now' = t1
          /\ tasks' = [tasks EXCEPT ![i].state = IF c.out.raised THEN "raised" ELSE "done",
                                    ![i].kind = c.kind]
  /\ UNCHANGED <<mainVars, pc, url, timer, client, result, refused, record_count, bench_start,
                 bench, duration_insert, time_waited, records_inserted, report,
                 history>>

\* gather waiting for the first task only (as asyncio.wait with
\* FIRST_COMPLETED would)
AnyDone(ts) == ts = <<>> \/ \E i \in 1..Len(ts) : ts[i].state = "done"

\* gather having a result only when every insert succeeded
AllSucceeded(ts) ==
  \A i \in 1..Len(ts) : ts[i].state = "done" /\ ts[i].kind = "result"

\* line 163: asyncio.gather(*ts) has a result when every task has one
AllDone(ts) == \A i \in 1..Len(ts) : ts[i].state = "done"

\* lines 163-167: gather returns when every task has ended without raising;
\* duration_insert is read, the with block is left and the next one entered
GatherReturn ==
  /\ pc = "AwaitGather"
  /\ AllDone(tasks)
  /\ \E r \in Reads(now, 6) :
       LET read == BenchDuration(bench, r[1], r[2])
           left == BenchExit(read.bench, SubSeq(r, 3, 6))
       IN /\ now' = r[6]
          /\ IF read.raised \/ left.raised
               THEN BenchRaise /\ UNCHANGED <<duration_insert, bench>>
               ELSE /\ duration_insert' = Some(read.value)
                    /\ bench' = BenchEnter(BenchInit, r[6])
                    /\ pc' = "WaitingReadConvergence"
                    /\ phaseLog' = Append(phaseLog, "WaitingReadConvergence")
                    /\ UNCHANGED <<mainVars, client, report>>
  /\ time_waited' = 0
  /\ attempts' = 0
  /\ sleeps' = 0
  /\ UNCHANGED <<url, timer, db, lastCall, result, refused, record_count, bench_start, tasks,
                 records_inserted, issued>>

\* line 163: gather raises the first exception of a task, without waiting
\* for the others
GatherRaise ==
  /\ pc = "AwaitGather"
  /\ \E i \in 1..Len(tasks) : tasks[i].state = "raised"
  /\ \E r \in Reads(now, 4) :
       LET left == BenchExit(bench, r)
       IN /\ now' = r[4]
          /\ bench' = left.bench
  /\ BenchRaise
  /\ UNCHANGED <<url, timer, db, lastCall, result, refused, record_count, bench_start, tasks,
                 duration_insert, time_waited, records_inserted, issued,
                 attempts, sleeps>>

\* asyncio.run ends: the tasks still pending are cancelled
CancelPending ==
  /\ mainpc = "aborted"
  /\ \E i \in 1..Len(tasks) : tasks[i].state = "inflight"
  /\ tasks' = [i \in 1..Len(tasks) |->
                IF tasks[i].state = "inflight"
                  THEN [tasks[i] EXCEPT !.state = "cancelled"] ELSE tasks[i]]
  /\ UNCHANGED <<mainVars, pc, url, timer, db, client, now, lastCall, result, refused,
                 record_count, bench_start, bench, duration_insert, time_waited,
                 records_inserted, report, history>>

\* lines 169-171 reading count, as lines 143 and 202 do, instead of the
\* column c of the first record
ExtractCount(obj) ==
  IF obj.records = None \/ Val(obj.records) = <<>>
    THEN None
    ELSE obj.count

\* lines 169-171: records[0]["c"] of the result obj of the count query;
\* None stands for the exception this expression raises
Extract(obj) ==
  IF obj.records = None \/ Val(obj.records) = <<>>
    THEN None
    ELSE Some(Val(obj.records)[1].c)

\* line 175 testing only that some record is counted
ConvergedNonZero(observed, expected) == observed # 0

\* line 175 with the comparison the wrong way round
ConvergedAtMost(observed, expected) == observed <= expected

\* line 175
Converged(observed, expected) == observed = expected

\* lines 168-178: one query of the read loop; when the loop ends, the
\* reading of time_waited and the exit of the with block
ReadPoll ==
  /\ pc = "WaitingReadConvergence"
  /\ \E fault \in Faults, t1 \in Adv(now) : \E r \in Reads(t1, 6) :
       LET c == Call(CountPony, fault, now, t1)
           seen == IF c.out.raised THEN None ELSE Extract(Val(c.out.value))
           read == BenchDuration(bench, r[1], r[2])
       IN /\ db' = c.target
          /\ lastCall' = Ended(c)
          /\ IF seen = None
               THEN /\ BenchRaise
                    /\ now' = r[4]
                    /\ bench' = BenchExit(bench, SubSeq(r, 1, 4)).bench
                    /\ UNCHANGED <<records_inserted, time_waited>>
               ELSE IF Converged(Val(seen), record_count)
               THEN /\ records_inserted' = seen
                    /\ time_waited' = read.value
                    /\ now' = r[6]
                    /\ bench' = BenchInit
                    /\ pc' = "Teardown"
                    /\ phaseLog' = Append(phaseLog, "Teardown")
                    /\ UNCHANGED <<mainVars, client, report>>
               ELSE /\ records_inserted' = seen
                    /\ now' = t1
                    /\ pc' = "ReadSleep"
                    /\ UNCHANGED <<mainVars, client, report, phaseLog, bench,
                                   time_waited>>
  /\ issued' = issued \cup {"WaitingReadConvergence"}
  /\ attempts' = attempts + 1
  /\ UNCHANGED <<url, timer, result, refused, record_count, bench_start, tasks,
                 duration_insert, sleeps>>

\* line 177 sleeping the interval of the schema loop
ReadSleepShort ==
  /\ pc = "ReadSleep"
  /\ now + SchemaInterval <= MaxClock
  /\ \E t1 \in Adv(now + SchemaInterval) : now' = t1
  /\ sleeps' = sleeps + 1
  /\ pc' = "WaitingReadConvergence"
  /\ UNCHANGED <<mainVars, url, timer, db, client, lastCall, result, refused, locals,
                 phaseLog, issued, attempts>>

\* line 177
ReadSleep ==
  /\ pc = "ReadSleep"
  /\ now + ReadInterval <= MaxClock
  /\ \E t1 \in Adv(now + ReadInterval) : now' = t1
  /\ sleeps' = sleeps + 1
  /\ pc' = "WaitingReadConvergence"
  /\ UNCHANGED <<mainVars, url, timer, db, client, lastCall, result, refused, locals,
                 phaseLog, issued, attempts>>

\* lines 180-181: the result of the drop is not looked at
Teardown ==
  /\ pc = "Teardown"
  /\ \E fault \in Faults, t1 \in Adv(now) : \E r \in Reads(t1, 4) :
       LET c == Call(DropPony, fault, now, t1)
           left == BenchExit(BenchEnter(BenchInit, now), r)
       IN /\ db' = c.target
          /\ lastCall' = Ended(c)
          /\ now' = r[4]
          /\ IF c.out.raised \/ left.raised
               THEN BenchRaise
               ELSE /\ pc' = "Done"
                    /\ phaseLog' = Append(phaseLog, "Done")
                    /\ UNCHANGED <<mainVars, client, report>>
  /\ issued' = issued \cup {"Teardown"}
  /\ UNCHANGED <<url, timer, result, refused, record_count, bench_start, bench, tasks,
                 duration_insert, time_waited, records_inserted, attempts, sleeps>>

\* lines 183-191 with the clock at t1 (line 187) and t2 (line 188)
Report(t1, t2) ==
  [duration_syncing |-> time_waited,
   duration_insert |-> Val(duration_insert),
   duration_total |-> t1 - bench_start,
   duration_total_without_waiting |-> t2 - bench_start - time_waited]

\* lines 183-191 and main's lines 236-242: the report is returned through
\* the async with block, which closes the client, and main prints it
Return ==
  /\ pc = "Done"
  /\ \E r \in Reads(now, 2) :
       /\ report' = Some(Report(r[1], r[2]))
       /\ now' = r[2]
  /\ client' = "closed"
  /\ pc' = "Returned"
  /\ mainpc' = "end"
  /\ UNCHANGED <<x, checks, url, timer, db, lastCall, result, refused, record_count, bench_start,
                 bench, tasks, duration_insert, time_waited, records_inserted,
                 history>>

Next ==
  \/ Replicate
  \/ AsyncTestEnter
  \/ AsyncTestCreate
  \/ AsyncTestInsert
  \/ AsyncTestSelect
  \/ AsyncTestDrop
  \/ BenchStart
  \/ DropPrior
  \/ Create
  \/ Recreate
  \/ SchemaPoll
  \/ SchemaSleep
  \/ Prepare
  \/ Gather
  \/ \E i \in 1..Len(tasks) : InsertComplete(i)
  \/ GatherReturn
  \/ GatherRaise
  \/ CancelPending
  \/ ReadPoll
  \/ ReadSleep
  \/ Teardown
  \/ Return

Spec == Init /\ [][Next]_vars

\* the steps of the program and of the backend answering it: everything but
\* the replication
Program ==
  \/ AsyncTestEnter
  \/ AsyncTestCreate
  \/ AsyncTestInsert
  \/ AsyncTestSelect
  \/ AsyncTestDrop
  \/ BenchStart
  \/ DropPrior
  \/ Create
  \/ Recreate
  \/ SchemaPoll
  \/ SchemaSleep
  \/ Prepare
  \/ Gather
  \/ \E i \in 1..Len(tasks) : InsertComplete(i)
  \/ GatherReturn
  \/ GatherRaise
  \/ CancelPending
  \/ ReadPoll
  \/ ReadSleep
  \/ Teardown
  \/ Return

\* the event loop of asyncio.run runs the coroutine that can go on, the
\* backend answers the statement it was sent, and the replica goes on
\* applying the changes of the primary
LiveSpec == Spec /\ WF_vars(Program) /\ WF_vars(Replicate)

\* ------------------------------------------------------ a Bench on its own
\* The class Bench as a caller may use it: constructed, then reset, entered,
\* read and left in any order, while the clock runs.  The setter of
\* duration is called by __init__ only, with None.
notTimer == <<mainVars, pc, url, db, client, lastCall, result, refused, locals, history>>

\* the clock advances between two calls
TimerTick ==
  /\ now < MaxClock
  /\ now' = now + 1
  /\ UNCHANGED <<timer, notTimer>>

\* lines 88-91: reset()
TimerReset ==
  /\ timer' = [timer EXCEPT !.bench = [time_start |-> Some(now), time_end |-> None,
                                       _duration |-> None],
                            !.readings = <<>>]
  /\ UNCHANGED <<now, notTimer>>

\* lines 93-96: __enter__ of a with block
TimerEnter ==
  /\ ~timer.inside
  /\ timer' = [timer EXCEPT !.bench = BenchEnter(@, now), !.inside = TRUE]
  /\ UNCHANGED <<now, notTimer>>

\* what timer becomes when a read of duration ends as out
TimerAfter(t, out) ==
  IF out.raised
    THEN [t EXCEPT !.bench = out.bench, !.raised = TRUE]
    ELSE [t EXCEPT !.bench = out.bench, !.readings = Append(@, out.value)]

\* lines 98-103: a read of duration
TimerRead ==
  /\ Len(timer.readings) < MaxReads
  /\ \E r \in Reads(now, 2) :
       /\ timer' = TimerAfter(timer, BenchDuration(timer.bench, r[1], r[2]))
       /\ now' = r[2]
  /\ UNCHANGED notTimer

\* lines 109-111: __exit__ of the with block, left normally or by an
\* exception: duration is read twice, the second read only if the first
\* did not raise
TimerExit ==
  /\ timer.inside
  /\ Len(timer.readings) + 2 <= MaxReads
  /\ \E r \in Reads(now, 4) :
       LET first == TimerAfter(timer, BenchDuration(timer.bench, r[1], r[2]))
           second == TimerAfter(first, BenchDuration(first.bench, r[3], r[4]))
       IN /\ timer' = [(IF first.raised THEN first ELSE second) EXCEPT !.inside = FALSE]
          /\ now' = r[4]
  /\ UNCHANGED notTimer

BenchNext ==
  \/ TimerTick
  \/ TimerReset
  \/ TimerEnter
  \/ TimerRead
  \/ TimerExit

BenchSpec == Init /\ [][BenchNext]_vars

\* ------------------------------------------------------------------ claims
Range(f) == {f[i] : i \in DOMAIN f}

\* the result object of the last call that ended with one
LastResult == Val(lastCall.out.value)

HasResult == lastCall.kind # "none" /\ ~lastCall.out.raised

\* the run has left the read loop through its break
LeftReadLoop == "Teardown" \in Range(phaseLog)

\* C1: whenever execute_bench has left WaitingReadConvergence through the
\* break of line 176, the count the last poll observed is record_count, and
\* right after the loop the last call is that count query, answered with a
\* single record whose c is record_count.
C1_ReadLoopEndsOnRecordCount ==
  /\ LeftReadLoop => records_inserted = Some(record_count)
  /\ pc = "Teardown" =>
       /\ lastCall.stmt = CountPony
       /\ HasResult
       /\ LastResult.records = Some(<<[c |-> record_count]>>)

C1_Witness ==
  /\ pc = "Teardown"
  /\ record_count >= 2
  /\ sleeps >= 1

\* the names of the objects the last schema query showed
SchemaSeen ==
  IF HasResult /\ lastCall.stmt = SelectSchema /\ LastResult.records # None
    THEN {Val(LastResult.records)[i].name : i \in 1..Val(LastResult.count)}
    ELSE {}

\* C2: when WaitingSchemaSync completes, the schema query the run saw has
\* exactly 2 objects and they are the working table pony and its sequence
\* object; stated for the network target at the moment it holds exactly
\* these two objects, whatever its replica still shows.
C2_SchemaSyncSeesPonyAndSequence ==
  (/\ pc = "Prepare"
   /\ url = "server"
   /\ db.primary.schema = {"pony", "sqlite_sequence"})
  => /\ LastResult.count = Some(ExpectedSchemaCount)
     /\ SchemaSeen = {"pony", "sqlite_sequence"}

\* the state in which C2 fails: the loop has ended on the two objects an
\* earlier async_test left on the replica
C2_Reached ==
  /\ pc = "Prepare"
  /\ url = "server"
  /\ db.primary.schema = {"pony", "sqlite_sequence"}
  /\ SchemaSeen = {"insert_test", "sqlite_sequence"}

\* the states of section 4.6 in their order, and the state of a position
PhaseOrder ==
  <<"DroppingPriorTable", "Creating", "VerifyingRejectedRecreate",
    "WaitingSchemaSync", "LoadingRecords", "WaitingReadConvergence",
    "Teardown", "Done">>

PhaseOf(p) ==
  CASE p = "SchemaSleep" -> "WaitingSchemaSync"
    [] p \in {"Prepare", "Gather", "AwaitGather"} -> "LoadingRecords"
    [] p = "ReadSleep" -> "WaitingReadConvergence"
    [] p = "Returned" -> "Done"
    [] OTHER -> p

InBench == phaseLog # <<>>

\* the phases entered so far are the first k of the order, each once, and
\* the run is in the k-th; a failed run entered at most the first seven
\* and then Failed; a statement was only issued in a phase entered; a call
\* that raised has failed the run (gather passes an insert's exception on
\* in a step of its own); there is a report exactly when the run returned
C3_PhasesInOrder ==
  InBench =>
    /\ IF pc = "Failed"
         THEN \E k \in 1..(Len(PhaseOrder) - 1) :
                phaseLog = Append(SubSeq(PhaseOrder, 1, k), "Failed")
         ELSE \E k \in 1..Len(PhaseOrder) :
                /\ phaseLog = SubSeq(PhaseOrder, 1, k)
                /\ PhaseOf(pc) = PhaseOrder[k]
    /\ issued \subseteq Range(phaseLog)
    /\ lastCall.out.raised =>
         \/ pc = "Failed"
         \/ pc = "AwaitGather" /\ \E i \in 1..Len(tasks) : tasks[i].state = "raised"
    /\ (report # None) <=> (pc = "Returned")
    /\ pc = "Returned" => phaseLog = PhaseOrder

\* Failed is terminal: no statement is issued and no report appears after it
C3_FailedIsTerminal ==
  pc = "Failed" =>
    /\ pc' = "Failed"
    /\ issued' = issued
    /\ lastCall' = lastCall
    /\ db' = db
    /\ report' = None

\* C3: a run that returns a report went through DroppingPriorTable,
\* Creating, VerifyingRejectedRecreate, WaitingSchemaSync, LoadingRecords,
\* WaitingReadConvergence, Teardown, Done in this order, each entered once
\* and none skipped; a fatal error moves the run to Failed, after which no
\* statement is issued and no report is returned.
C3_PhaseSequence == [](C3_PhasesInOrder) /\ [][C3_FailedIsTerminal]_vars

C3_Witness ==
  /\ pc = "Returned"
  /\ report # None
  /\ record_count >= 1
  /\ phaseLog = PhaseOrder

\* C4: on the local file, a call of async_test whose create, insert and read
\* the backend executed reads exactly one row and returns True; on the
\* network target such a call can return False (C4_Witness).
C4_FileReadsItsInsert ==
  (url = "file" /\ pc \in {"t_drop", "t_returned"} /\ ~refused) =>
    /\ result = Some(TRUE)
    /\ pc = "t_drop" => LastResult.count = Some(1)

C4_Witness ==
  /\ url = "server"
  /\ pc = "t_returned"
  /\ ~refused
  /\ result = Some(FALSE)
  /\ checks = <<FALSE>>

\* the data fields of a result object
DataFields == {"columns", "records", "last_insert_rowid", "rows_affected", "count"}

\* C5: a statement the backend rejects gives a result object with success
\* False, error {message, code} and no data field, and execute does not
\* raise; any other error leaves execute as an exception, with no result;
\* either way the statement was dispatched once.
C5_RejectionIsAResult ==
  /\ lastCall.kind = "libsql_error" =>
       /\ ~lastCall.out.raised
       /\ lastCall.out.value # None
       /\ LastResult.success = Some(FALSE)
       /\ LastResult.error # None
       /\ DOMAIN Val(LastResult.error) = {"message", "code"}
       /\ \A f \in DataFields : LastResult[f] = None
       /\ DOMAIN LastResult = DOMAIN ResultDefaults
  /\ lastCall.kind = "other_error" =>
       /\ lastCall.out.raised
       /\ lastCall.out.value = None
  /\ lastCall.kind # "none" => lastCall.out.dispatches = 1
  /\ \A i \in 1..Len(tasks) :
       tasks[i].dispatches = IF tasks[i].state = "created" THEN 0 ELSE 1

C5_Witness ==
  /\ lastCall.stmt = CreatePonyAgain
  /\ lastCall.kind = "libsql_error"
  /\ Val(LastResult.error).message = "table already exists"
  /\ pc = "WaitingSchemaSync"

\* the phases before the schema poll
EarlyPhases == {"DroppingPriorTable", "Creating", "VerifyingRejectedRecreate"}

\* a second create that did not fail has failed the run before any later
\* statement
C6_AcceptedRecreateAborts ==
  (InBench /\ lastCall.stmt = CreatePonyAgain /\ lastCall.kind = "result") =>
    /\ pc = "Failed"
    /\ issued \subseteq EarlyPhases

\* after a first create that succeeded, the second create that returns
\* reports failure and the run goes on to WaitingSchemaSync
C6_RecreateAfterCreate ==
  (/\ pc = "VerifyingRejectedRecreate"
   /\ lastCall.stmt = CreatePony
   /\ lastCall.kind = "result"
   /\ pc' # pc
   /\ ~lastCall'.out.raised)
  => /\ lastCall'.stmt = CreatePonyAgain
     /\ Val(lastCall'.out.value).success = Some(FALSE)
     /\ pc' = "WaitingSchemaSync"

\* C6: the result of the second create is asserted to be a failure: if it
\* is not, the run is Failed before any schema poll, insert or teardown is
\* issued; if the first create succeeded, the second reports failure and
\* the run proceeds to WaitingSchemaSync.
C6_RejectedRecreate == [](C6_AcceptedRecreateAborts) /\ [][C6_RecreateAfterCreate]_vars

C6_Witness ==
  /\ pc = "Failed"
  /\ lastCall.stmt = CreatePonyAgain
  /\ lastCall.kind = "result"

\* gather has started the tasks
Launched == "LoadingRecords" \in Range(phaseLog) /\ pc \notin {"Prepare", "Gather"}

\* C7: LoadingRecords issues exactly record_count inserts, one per index
\* 0..record_count-1; none is started before the timer of the phase, and
\* gather starts them all together; the phase is left for
\* WaitingReadConvergence only when every one of them has completed.
C7_LoadIssuesEveryInsert ==
  InBench =>
    /\ "LoadingRecords" \notin Range(phaseLog) \/ pc = "Prepare" => tasks = <<>>
    /\ pc = "Gather" =>
         /\ Len(tasks) = record_count
         /\ \A i \in 1..Len(tasks) :
              /\ tasks[i].index = i - 1
              /\ tasks[i].state = "created"
              /\ tasks[i].dispatches = 0
    /\ Launched =>
         /\ Len(tasks) = record_count
         /\ \A i \in 1..Len(tasks) :
              /\ tasks[i].index = i - 1
              /\ tasks[i].state # "created"
              /\ tasks[i].dispatches = 1
    /\ pc = "AwaitGather" =>
         /\ bench.time_start # None
         /\ \A i \in 1..Len(tasks) : tasks[i].t0 >= Val(bench.time_start)
    /\ "WaitingReadConvergence" \in Range(phaseLog) =>
         \A i \in 1..Len(tasks) : tasks[i].state = "done"

C7_Witness ==
  /\ pc = "WaitingReadConvergence"
  /\ attempts = 0
  /\ record_count >= 2
  /\ \A i \in 1..Len(tasks) : tasks[i].state = "done"

\* C8: in every report, duration_total_without_waiting is duration_total
\* minus duration_syncing.
C8_WithoutWaitingIsDifference ==
  report # None =>
    Val(report).duration_total_without_waiting
      = Val(report).duration_total - Val(report).duration_syncing

\* C9: in every report the four durations are not negative, and
\* duration_total is at least duration_insert and at least duration_syncing.
C9_DurationsOrdered ==
  report # None =>
    LET r == Val(report)
    IN /\ r.duration_syncing >= 0
       /\ r.duration_insert >= 0
       /\ r.duration_total >= 0
       /\ r.duration_total_without_waiting >= 0
       /\ r.duration_total >= r.duration_insert
       /\ r.duration_total >= r.duration_syncing

C9_Witness ==
  /\ report # None
  /\ Val(report).duration_insert >= 1
  /\ Val(report).duration_syncing >= 1

AllInsertsSucceeded == \A i \in 1..Len(tasks) : tasks[i].kind = "result"

\* C10: on the local file, when every insert succeeded, the read loop ends
\* on its first query: one count query is issued and no sleep is made.
C10_FileConvergesOnFirstPoll ==
  (/\ url = "file"
   /\ "WaitingReadConvergence" \in Range(phaseLog)
   /\ AllInsertsSucceeded)
  => /\ sleeps = 0
     /\ pc # "ReadSleep"
     /\ attempts <= 1
     /\ LeftReadLoop => attempts = 1

C10_Witness ==
  /\ url = "file"
  /\ pc = "Teardown"
  /\ record_count >= 2
  /\ AllInsertsSucceeded
  /\ attempts = 1
  /\ sleeps = 0

\* the call c was rejected although the statement was valid on the database
\* it was evaluated on
Busy(c) ==
  /\ c.kind = "libsql_error"
  /\ Val(Val(c.out.value).error).code = "SQLITE_BUSY"

\* the first query of the read loop is answered by a replica that has not
\* applied every write of the primary, with no transport error and no
\* rejection other than what the replica's own state gives: the loop sleeps
C11_LagForcesRetry ==
  (/\ pc = "WaitingReadConvergence"
   /\ attempts = 0
   /\ url = "server"
   /\ record_count >= 1
   /\ db.pending # <<>>
   /\ attempts' = 1
   /\ lastCall'.kind # "other_error"
   /\ ~Busy(lastCall'))
  => pc' = "ReadSleep"

\* a report of a run that retried shows at least one interval per sleep
C11_RetriedSyncing ==
  (report # None /\ sleeps >= 1) =>
    Val(report).duration_syncing >= sleeps * ReadInterval

\* C11: against the network target whose replica lags behind the completed
\* writes, WaitingReadConvergence makes at least one retry, and the
\* duration_syncing reported is at least one poll interval (ReadInterval).
C11_DelayedConsistencyRetries ==
  [](C11_RetriedSyncing) /\ [][C11_LagForcesRetry]_vars

\* the state in which C11 fails: the first count query was answered "no
\* such table" by the lagging replica and the run has failed without a retry
C11_Reached ==
  /\ pc = "Failed"
  /\ url = "server"
  /\ record_count >= 1
  /\ lastCall.stmt = CountPony
  /\ lastCall.kind = "libsql_error"
  /\ ~Busy(lastCall)
  /\ attempts = 1
  /\ sleeps = 0

InSchemaLoop(p) == p \in {"WaitingSchemaSync", "SchemaSleep"}

InReadLoop(p) == p \in {"WaitingReadConvergence", "ReadSleep"}

\* a step leaves a polling loop only to Failed or on a query that has just
\* observed the expected value; a query that did not is followed by the
\* sleep, and the sleep by the next query
C14_LoopExits ==
  /\ (InSchemaLoop(pc) /\ ~InSchemaLoop(pc')) =>
       \/ pc' = "Failed"
       \/ /\ pc = "WaitingSchemaSync"
          /\ pc' = "Prepare"
          /\ lastCall'.stmt = SelectSchema
          /\ ~lastCall'.out.raised
          /\ Val(lastCall'.out.value).count = Some(ExpectedSchemaCount)
  /\ (InReadLoop(pc) /\ ~InReadLoop(pc')) =>
       \/ pc' = "Failed"
       \/ /\ pc = "WaitingReadConvergence"
          /\ pc' = "Teardown"
          /\ lastCall'.stmt = CountPony
          /\ ~lastCall'.out.raised
          /\ Extract(Val(lastCall'.out.value)) = Some(record_count)
  /\ (pc = "SchemaSleep" /\ pc' # pc) => pc' = "WaitingSchemaSync"
  /\ (pc = "ReadSleep" /\ pc' # pc) => pc' = "WaitingReadConvergence"

\* while a loop sleeps, its last query did not observe the expected value
C14_SleepsOnMismatch ==
  /\ pc = "SchemaSleep" =>
       /\ lastCall.stmt = SelectSchema
       /\ LastResult.count # Some(ExpectedSchemaCount)
  /\ pc = "ReadSleep" =>
       /\ lastCall.stmt = CountPony
       /\ records_inserted # None
       /\ records_inserted # Some(record_count)

\* C14: the run leaves WaitingSchemaSync only when a poll observes a schema
\* count of 2 and WaitingReadConvergence only when a poll observes count =
\* record_count, or by failing; while the observed value differs the loop
\* goes on from query to sleep to query with no limit on the attempts, and
\* the run reaches neither Teardown nor Done.
C14_PollsUnbounded == [](C14_SleepsOnMismatch) /\ [][C14_LoopExits]_vars

C14_Witness ==
  /\ pc = "ReadSleep"
  /\ attempts >= 2
  /\ sleeps >= 1

\* the step that ends a sleep: the clock has advanced by the loop's full
\* interval at least, no statement was issued, and the next query follows
C15_SleepIsFull ==
  /\ (pc = "SchemaSleep" /\ pc' # pc) =>
       /\ pc' = "WaitingSchemaSync"
       /\ now' >= now + SchemaInterval
       /\ sleeps' = sleeps + 1
       /\ <<lastCall, issued, attempts, db>>' = <<lastCall, issued, attempts, db>>
  /\ (pc = "ReadSleep" /\ pc' # pc) =>
       /\ pc' = "WaitingReadConvergence"
       /\ now' >= now + ReadInterval
       /\ sleeps' = sleeps + 1
       /\ <<lastCall, issued, attempts, db>>' = <<lastCall, issued, attempts, db>>
  /\ (InSchemaLoop(pc) \/ InReadLoop(pc)) =>
       /\ attempts' \in {attempts, attempts + 1}
       /\ attempts' = attempts + 1 => pc \in {"WaitingSchemaSync", "WaitingReadConvergence"}

\* in a polling loop every query but the first comes after one sleep, a
\* sleeping loop has one unanswered mismatch, and no other statement of the
\* run is in flight
C15_OneSleepPerRetry ==
  /\ pc \in {"WaitingSchemaSync", "WaitingReadConvergence"} => sleeps = attempts
  /\ pc \in {"SchemaSleep", "ReadSleep"} => attempts = sleeps + 1
  /\ (InSchemaLoop(pc) \/ InReadLoop(pc)) =>
       /\ \A i \in 1..Len(tasks) : tasks[i].state = "done"
       /\ attempts >= 1 =>
            lastCall.stmt = (IF InSchemaLoop(pc) THEN SelectSchema ELSE CountPony)

\* C15: the polls of a loop are sequential and a full interval apart: each
\* query after a mismatch is dispatched only after one whole sleep of the
\* loop's interval (SchemaInterval, ReadInterval) that began when the
\* mismatching query ended, and no other statement is issued in between.
C15_PollsSequential == [](C15_OneSleepPerRetry) /\ [][C15_SleepIsFull]_vars

C15_Witness ==
  /\ pc = "WaitingReadConvergence"
  /\ attempts >= 1
  /\ sleeps = attempts
  /\ now >= ReadInterval

\* the inserts that returned a failed result object
FailedInserts == {i \in 1..Len(tasks) : tasks[i].kind = "libsql_error"}

\* an insert ends as a task result exactly when it did not raise; once every
\* insert has ended so, whatever failed, gather can return and cannot raise
C16_FailedInsertIsAResult ==
  /\ \A i \in 1..Len(tasks) :
       /\ tasks[i].kind \in {"result", "libsql_error"} => tasks[i].state = "done"
       /\ tasks[i].kind = "other_error" <=> tasks[i].state = "raised"
  /\ (pc = "AwaitGather" /\ \A i \in 1..Len(tasks) : tasks[i].state = "done") =>
       /\ ENABLED GatherReturn
       /\ ~ENABLED GatherRaise

\* the step that leaves the batch: to WaitingReadConvergence when every
\* insert has ended with a result, to Failed only when an insert has raised
C16_BatchOutcome ==
  (pc = "AwaitGather" /\ pc' # pc) =>
    \/ /\ pc' = "WaitingReadConvergence"
       /\ \A i \in 1..Len(tasks) : tasks[i].kind \in {"result", "libsql_error"}
    \/ /\ pc' = "Failed"
       /\ \E i \in 1..Len(tasks) : tasks[i].kind = "other_error"

\* C16: in LoadingRecords an insert that returns a failed result does not
\* change the control flow: whichever inserts the backend rejects, the batch
\* completes and the run proceeds to WaitingReadConvergence; the batch and
\* the run fail only when an insert raises another error.
C16_FailedInsertsIgnored ==
  [](C16_FailedInsertIsAResult) /\ [][C16_BatchOutcome]_vars

C16_Witness ==
  /\ pc = "WaitingReadConvergence"
  /\ attempts = 0
  /\ FailedInserts # {}
  /\ FailedInserts # 1..Len(tasks)

\* the inserts the backend executed
WrittenInserts == {i \in 1..Len(tasks) : tasks[i].kind = "result"}

\* C18: when an insert of the batch has returned a failed result (its row
\* is not written), the table holds fewer than record_count rows, every
\* count the read loop observes is below record_count, and the run reaches
\* neither Teardown nor Done: no drop of the working table is issued and no
\* report is returned.
C18_FailedInsertNeverConverges ==
  FailedInserts # {} =>
    /\ db.primary.pony <= Cardinality(WrittenInserts)
    /\ Cardinality(WrittenInserts) < record_count
    /\ (InReadLoop(pc) /\ records_inserted # None) =>
         Val(records_inserted) < record_count
    /\ pc \notin {"Teardown", "Done", "Returned"}
    /\ "Teardown" \notin Range(phaseLog)
    /\ "Teardown" \notin issued
    /\ report = None

C18_Witness ==
  /\ pc = "WaitingReadConvergence"
  /\ FailedInserts # {}
  /\ WrittenInserts # {}
  /\ attempts >= 1
  /\ records_inserted = Some(Cardinality(WrittenInserts))

\* execute_bench has been left, with its report or by an exception
Exited == pc \in {"Returned", "Failed"}

InFlight == {i \in 1..Len(tasks) : tasks[i].state = "inflight"}

\* on every exit of execute_bench the client is closed
C19_ClosedOnExit == (InBench /\ Exited) => client = "closed"

\* C19: on every exit of execute_bench, with the report or by a fatal
\* error, the client is closed, and when it is closed no insert that was
\* dispatched is still in flight, also when one insert of the batch raises
\* while others have not completed.
C19_ClosedWithNothingInFlight ==
  /\ C19_ClosedOnExit
  /\ (InBench /\ client = "closed") => InFlight = {}

\* the state in which C19 fails: gather has passed on the exception of one
\* insert and the client is closed while another insert is in flight
C19_Reached ==
  /\ pc = "Failed"
  /\ client = "closed"
  /\ \E i \in 1..Len(tasks) : tasks[i].state = "raised"
  /\ InFlight # {}

\* a schema query answered with a failed result is followed by the sleep
C20_SchemaPollFailureRetries ==
  (/\ pc = "WaitingSchemaSync"
   /\ attempts' = attempts + 1
   /\ lastCall'.kind = "libsql_error")
  => pc' = "SchemaSleep"

\* a count query answered with a failed result is followed by the sleep
C20_ReadPollFailureRetries ==
  (/\ pc = "WaitingReadConvergence"
   /\ attempts' = attempts + 1
   /\ lastCall'.kind = "libsql_error")
  => pc' = "ReadSleep"

\* a polling loop fails the run only when the call of its query raised
C20_OnlyRaisedCallAborts ==
  ((InSchemaLoop(pc) \/ InReadLoop(pc)) /\ pc' = "Failed") => lastCall'.out.raised

\* C20: in both polling loops a query that returns a failed result is taken
\* as not yet converged: the loop sleeps and retries and the run does not
\* become Failed; only an error raised by the call of the query aborts the
\* run.
C20_FailedPollIsNotConverged ==
  [][/\ C20_SchemaPollFailureRetries
     /\ C20_ReadPollFailureRetries
     /\ C20_OnlyRaisedCallAborts]_vars

\* the state in which C20 fails: the count query returned a failed result
\* and the run is Failed
C20_Reached ==
  /\ pc = "Failed"
  /\ lastCall.stmt = CountPony
  /\ lastCall.kind = "libsql_error"
  /\ ~lastCall.out.raised

\* no call made so far is seen to have raised or to have been rejected
\* though its statement was valid, and no insert has failed; the run
\* inserts a record at least
NoFault ==
  /\ InBench => record_count >= 1
  /\ lastCall.kind # "other_error"
  /\ ~Busy(lastCall)
  /\ \A i \in 1..Len(tasks) : tasks[i].kind \in {"none", "result"}

\* a sleep that would pass the last clock reading of the model
ClockRanOut ==
  \/ pc = "SchemaSleep" /\ now + SchemaInterval > MaxClock
  \/ pc = "ReadSleep" /\ now + ReadInterval > MaxClock

C17_ReportsOrFailsOnPoll ==
  []NoFault => <>(pc = "Returned" \/ ClockRanOut \/ C11_Reached)

\* every value duration has returned since the construction or the last
\* reset is the first one, which is the value cached
C12_ReadsAgree ==
  /\ \A i \in 1..Len(timer.readings) : timer.readings[i] = timer.readings[1]
  /\ timer.readings # <<>> =>
       /\ timer.bench._duration = Some(timer.readings[1])
       /\ timer.bench.time_end # None

\* the step that leaves a with block leaves the duration computed
C12_ExitFinalizes ==
  (timer.inside /\ ~timer'.inside) =>
    /\ timer'.raised = timer.raised
    /\ timer'.bench._duration # None
    /\ timer'.bench.time_end # None

\* C12: the first read of duration stops the clock and caches the value:
\* every later read on the same Bench with no reset in between returns the
\* value of the first, for every start and every reading of the clock, also
\* when the first read is made at the clock reading of the start; and when
\* the with block is left, normally or by an error, the duration is computed.
C12_FirstReadCached == [](C12_ReadsAgree) /\ [][C12_ExitFinalizes]_vars

\* the state in which C12 fails: the first read returned 0 and a later one
\* another value
C12_Reached ==
  /\ Len(timer.readings) >= 2
  /\ timer.readings[1] = 0
  /\ timer.readings[Len(timer.readings)] > 0

\* the Bench holds a computed duration
Finalized == timer.bench._duration # None

\* when the Bench is finalized, the duration and the interval it was
\* computed from are not negative
C13_FinalizedOrdered ==
  (Finalized /\ timer.bench.time_start # None /\ timer.bench.time_end # None) =>
    /\ Val(timer.bench._duration) >= 0
    /\ Val(timer.bench.time_end) >= Val(timer.bench.time_start)

\* C13: in every state of a Bench, also constructed and neither entered nor
\* reset, a read of duration returns a value that is not negative and never
\* raises; whenever the Bench is finalized, duration >= 0 and time_end >=
\* time_start.
C13_ReadNeverFails ==
  /\ ~timer.raised
  /\ \A i \in 1..Len(timer.readings) : timer.readings[i] >= 0
  /\ C13_FinalizedOrdered

\* the state in which C13 fails: duration was read on a Bench that was
\* constructed and neither entered nor reset, and the read raised
C13_Reached ==
  /\ timer.raised
  /\ timer.bench.time_start = None
  /\ timer.readings = <<>>

====
